---- MODULE Spec2Model ----
(***************************************************************************)
(* A model of remote-cloudflare-kv (src/src/index.ts): the CloudflareKV    *)
(* client, its validation and translation layer, and the HTTP exchanges    *)
(* it makes.                                                               *)
(*                                                                         *)
(* JavaScript values are records with a field t naming their type.        *)
(* Strings are sequences of one-character strings; a string record may    *)
(* carry a run-length tail (pad further "a" characters) so that values of  *)
(* 25 MiB can be written down.  Numbers are exact: a number is             *)
(*   c = 0 : n + f/10                 (n in the signed 32-bit range)       *)
(*   c = 1 : MAX_EXPIRATION + n + f/10   (n >= 1)                          *)
(*   c = -1: MIN_EXPIRATION - n + f/10   (n >= 1)                          *)
(*   c = 2 / -2 : beyond that, magnitude not tracked                       *)
(* because the checker's integers are 32 bits wide and the program's are   *)
(* doubles.                                                                *)
(***************************************************************************)
EXTENDS Integers, Sequences, FiniteSets, TLC

(* ------------------------------------------------------------------ *)
(* Program constants (src/src/index.ts:3-9)                            *)
(* ------------------------------------------------------------------ *)
MIN_CACHE_TTL == 60
MAX_EXPIRATION == 2147483647
MIN_EXPIRATION == -2147483647 - 1
MAX_LIST_KEYS == 1000
MAX_KEY_SIZE == 512
MAX_VALUE_SIZE == 26214400
MAX_METADATA_SIZE == 1024

(* ------------------------------------------------------------------ *)
(* Bounds of the model                                                 *)
(* ------------------------------------------------------------------ *)
\* the clock readings of the model start at this Unix time (seconds)
NowBase == 1700000000
\* whole seconds the clock may be past NowBase when put reads it
MaxTick == 1
\* keys held by the namespace in the pagination runs
MaxKeys == 4
\* largest page limit a paginating caller asks for
MaxLimit == 2
\* list calls a paginating caller makes before the run is cut off
MaxCalls == 6

(* ------------------------------------------------------------------ *)
(* JavaScript values                                                   *)
(* ------------------------------------------------------------------ *)
Undef == [t |-> "undefined"]
JNull == [t |-> "null"]
JBool(b) == [t |-> "boolean", b |-> b]
NaN == [t |-> "number", nan |-> TRUE, c |-> 0, n |-> 0, f |-> 0]
Frac(n, f) == [t |-> "number", nan |-> FALSE, c |-> 0, n |-> n, f |-> f]
Number(n) == Frac(n, 0)
Above(k) == [t |-> "number", nan |-> FALSE, c |-> 1, n |-> k, f |-> 0]
Below(k) == [t |-> "number", nan |-> FALSE, c |-> -1, n |-> k, f |-> 0]
Huge == [t |-> "number", nan |-> FALSE, c |-> 2, n |-> 0, f |-> 0]
NegHuge == [t |-> "number", nan |-> FALSE, c |-> -2, n |-> 0, f |-> 0]
Padded(s, pad) == [t |-> "string", s |-> s, pad |-> pad]
Str(s) == Padded(s, 0)
JArr(items) == [t |-> "array", items |-> items]
JObj(members) == [t |-> "object", members |-> members]
ArrayBufferOf(text) == [t |-> "ArrayBuffer", of |-> text]
ReadableStreamOf(text) == [t |-> "ReadableStream", of |-> text]

\* the typeof operator
typeof(v) ==
  IF v.t \in {"null", "array", "object", "ArrayBuffer", "ReadableStream"}
  THEN "object" ELSE v.t

\* ToBoolean, as the conditions of the program apply it
Truthy(v) ==
  CASE v.t = "undefined" -> FALSE
    [] v.t = "null" -> FALSE
    [] v.t = "boolean" -> v.b
    [] v.t = "number" -> ~v.nan /\ ~(v.c = 0 /\ v.n = 0 /\ v.f = 0)
    [] v.t = "string" -> Len(v.s) + v.pad > 0
    [] OTHER -> TRUE

\* String.prototype.length
Length(str) == Len(str.s) + str.pad

(* ------------------------------------------------------------------ *)
(* Number arithmetic                                                   *)
(* ------------------------------------------------------------------ *)
Rank(a) == IF a.c < 0 THEN -a.n ELSE a.n

\* a < b on numbers; false when either is NaN
Lt(a, b) ==
  /\ ~a.nan /\ ~b.nan
  /\ \/ a.c < b.c
     \/ /\ a.c = b.c
        /\ \/ Rank(a) < Rank(b)
           \/ Rank(a) = Rank(b) /\ a.f < b.f

Gt(a, b) == Lt(b, a)
Le(a, b) == ~a.nan /\ ~b.nan /\ ~Lt(b, a)

\* the integer after the integer part of a
NextInt(a) ==
  CASE a.c = 0 -> IF a.n = MAX_EXPIRATION THEN Above(1) ELSE Number(a.n + 1)
    [] a.c = 1 -> IF a.n = MAX_EXPIRATION THEN Huge ELSE Above(a.n + 1)
    [] a.c = -1 -> IF a.n = 1 THEN Number(MIN_EXPIRATION) ELSE Below(a.n - 1)
    [] OTHER -> a

\* Math.round: to the nearest integer, halves upwards
MathRound(a) ==
  IF a.nan THEN NaN
  ELSE IF a.f >= 5 THEN NextInt(a)
  ELSE [a EXCEPT !.f = 0]

\* a + b for integers a, b of the signed 32-bit range
Plus(a, b) ==
  IF a.nan \/ b.nan THEN NaN
  ELSE IF b.n > 0 /\ a.n > MAX_EXPIRATION - b.n
    THEN Above(a.n - (MAX_EXPIRATION - b.n))
  ELSE IF b.n < 0 /\ a.n < MIN_EXPIRATION - b.n
    THEN Below((MIN_EXPIRATION - b.n) - a.n)
  ELSE Number(a.n + b.n)

(* ------------------------------------------------------------------ *)
(* parseInt(string, 10)                                                *)
(* ------------------------------------------------------------------ *)
Digits == <<"0", "1", "2", "3", "4", "5", "6", "7", "8", "9">>
IsDigit(ch) == \E d \in 1..10 : Digits[d] = ch
DigitVal(ch) == (CHOOSE d \in 1..10 : Digits[d] = ch) - 1
WhiteSpace == {" ", "\t", "\n", "\r"}

RECURSIVE SkipSpace(_, _)
SkipSpace(s, i) ==
  IF i <= Len(s) /\ s[i] \in WhiteSpace THEN SkipSpace(s, i + 1) ELSE i

\* the digits of s from i on, accumulated onto acc; past the 32-bit range
\* only the fact that the value is out of it is kept
RECURSIVE ParseDigits(_, _, _)
ParseDigits(s, i, acc) ==
  IF i > Len(s) \/ ~IsDigit(s[i]) THEN acc
  ELSE LET d == DigitVal(s[i])
       IN  IF acc.c # 0 \/ acc.n > (MAX_EXPIRATION - d) \div 10
           THEN ParseDigits(s, i + 1, Huge)
           ELSE ParseDigits(s, i + 1, Number(acc.n * 10 + d))

Negate(a) ==
  CASE a.c = 2 -> NegHuge
    [] a.c = 1 -> IF a.n = 1 THEN Number(MIN_EXPIRATION) ELSE Below(a.n - 1)
    [] OTHER -> Number(-a.n)

parseInt(str) ==
  LET s == str.s \o [k \in 1..str.pad |-> "a"]
      i == SkipSpace(s, 1)
      neg == i <= Len(s) /\ s[i] = "-"
      j == IF i <= Len(s) /\ s[i] \in {"-", "+"} THEN i + 1 ELSE i
  IN  IF j > Len(s) \/ ~IsDigit(s[j]) THEN NaN
      ELSE IF neg THEN Negate(ParseDigits(s, j, Number(0)))
      ELSE ParseDigits(s, j, Number(0))

\* value as an integer, or undefined if it is neither a number nor a string
normaliseInt(value) ==
  CASE typeof(value) = "number" -> MathRound(value)
    [] typeof(value) = "string" -> parseInt(value)
    [] OTHER -> Undef

(* ------------------------------------------------------------------ *)
(* JSON.stringify and JSON.parse                                       *)
(* Numbers inside JSON values are integers of the 32-bit range.        *)
(* ------------------------------------------------------------------ *)
\* a literal of the program's fixed vocabulary, kept as one token
Lit(word) == Str(<<word>>)

RECURSIVE NatText(_)
NatText(n) ==
  IF n < 10 THEN <<Digits[n + 1]>>
  ELSE NatText(n \div 10) \o <<Digits[(n % 10) + 1]>>

NumText(v) ==
  IF v.nan \/ v.c # 0 THEN <<"n", "u", "l", "l">>
  ELSE IF v.n < 0 THEN <<"-">> \o NatText(-v.n)
  ELSE NatText(v.n)

RECURSIVE EscapeChars(_)
EscapeChars(s) ==
  IF s = <<>> THEN <<>>
  ELSE (IF Head(s) \in {"\"", "\\"} THEN <<"\\", Head(s)>> ELSE <<Head(s)>>)
       \o EscapeChars(Tail(s))

Quote(s) ==
  <<"\"">>
  \o (IF \A i \in 1..Len(s) : s[i] \notin {"\"", "\\"} THEN s ELSE EscapeChars(s))
  \o <<"\"">>

RECURSIVE JSONstringify(_)
RECURSIVE StringifyItems(_, _)
RECURSIVE StringifyMembers(_, _)
StringifyItems(items, i) ==
  IF i > Len(items) THEN <<>>
  ELSE (IF i > 1 THEN <<",">> ELSE <<>>)
       \o JSONstringify(items[i]) \o StringifyItems(items, i + 1)

StringifyMembers(members, i) ==
  IF i > Len(members) THEN <<>>
  ELSE (IF i > 1 THEN <<",">> ELSE <<>>)
       \o Quote(members[i][1]) \o <<":">> \o JSONstringify(members[i][2])
       \o StringifyMembers(members, i + 1)

\* the JSON text of v, as a sequence of characters
JSONstringify(v) ==
  CASE v.t = "null" -> <<"n", "u", "l", "l">>
    [] v.t = "boolean" ->
         IF v.b THEN <<"t", "r", "u", "e">> ELSE <<"f", "a", "l", "s", "e">>
    [] v.t = "number" -> NumText(v)
    [] v.t = "string" -> Quote(v.s \o [k \in 1..v.pad |-> "a"])
    [] v.t = "array" -> <<"[">> \o StringifyItems(v.items, 1) \o <<"]">>
    [] v.t = "object" -> <<"{">> \o StringifyMembers(v.members, 1) \o <<"}">>
    [] v.t \in {"ArrayBuffer", "ReadableStream"} -> <<"{", "}">>

ParseFail == [ok |-> FALSE, v |-> Undef, i |-> 0]
Parsed(v, i) == [ok |-> TRUE, v |-> v, i |-> i]

HasAt(s, i, word) ==
  /\ i + Len(word) - 1 <= Len(s)
  /\ \A k \in 1..Len(word) : s[i + k - 1] = word[k]

\* the characters of a JSON string whose opening quote precedes i
RECURSIVE ParseChars(_, _, _)
ParseChars(s, i, acc) ==
  IF i > Len(s) THEN ParseFail
  ELSE IF s[i] = "\"" THEN Parsed(Str(acc), i + 1)
  ELSE IF s[i] = "\\" THEN
    IF i + 1 <= Len(s) /\ s[i + 1] \in {"\"", "\\"}
    THEN ParseChars(s, i + 2, Append(acc, s[i + 1]))
    ELSE ParseFail
  ELSE ParseChars(s, i + 1, Append(acc, s[i]))

\* a JSON integer at i: -? (0 | [1-9][0-9]* )
ParseNumber(s, i) ==
  LET neg == s[i] = "-"
      j == IF neg THEN i + 1 ELSE i
      k == CHOOSE k \in j..(Len(s) + 1) :
             /\ \A m \in j..(k - 1) : IsDigit(s[m])
             /\ k > Len(s) \/ ~IsDigit(s[k])
      n == ParseDigits(s, j, Number(0))
  IN  IF k = j \/ (s[j] = "0" /\ k > j + 1) \/ n.c # 0 THEN ParseFail
      ELSE IF k <= Len(s) /\ s[k] \in {".", "e", "E"} THEN ParseFail
      ELSE Parsed(IF neg THEN Number(-n.n) ELSE n, k)

RECURSIVE ParseValue(_, _)
RECURSIVE ParseElements(_, _, _)
RECURSIVE ParseMembers(_, _, _)
\* the elements of an array after its first, up to the closing bracket
ParseElements(s, i, acc) ==
  LET j == SkipSpace(s, i)
  IN  IF j > Len(s) THEN ParseFail
      ELSE IF s[j] = "]" THEN Parsed(JArr(acc), j + 1)
      ELSE IF s[j] # "," THEN ParseFail
      ELSE LET r == ParseValue(s, j + 1)
           IN  IF r.ok THEN ParseElements(s, r.i, Append(acc, r.v)) ELSE ParseFail

\* one member at i, then the rest of the object
ParseMembers(s, i, acc) ==
  LET j == SkipSpace(s, i)
      name == IF j <= Len(s) /\ s[j] = "\"" THEN ParseChars(s, j + 1, <<>>) ELSE ParseFail
      c == IF name.ok THEN SkipSpace(s, name.i) ELSE 0
      val == IF name.ok /\ c <= Len(s) /\ s[c] = ":" THEN ParseValue(s, c + 1) ELSE ParseFail
      e == IF val.ok THEN SkipSpace(s, val.i) ELSE 0
      more == Append(acc, <<name.v.s, val.v>>)
  IN  IF ~val.ok \/ e > Len(s) THEN ParseFail
      ELSE IF s[e] = "}" THEN Parsed(JObj(more), e + 1)
      ELSE IF s[e] = "," THEN ParseMembers(s, e + 1, more)
      ELSE ParseFail

ParseValue(s, i0) ==
  LET i == SkipSpace(s, i0)
  IN  IF i > Len(s) THEN ParseFail
      ELSE IF HasAt(s, i, <<"n", "u", "l", "l">>) THEN Parsed(JNull, i + 4)
      ELSE IF HasAt(s, i, <<"t", "r", "u", "e">>) THEN Parsed(JBool(TRUE), i + 4)
      ELSE IF HasAt(s, i, <<"f", "a", "l", "s", "e">>) THEN Parsed(JBool(FALSE), i + 5)
      ELSE IF s[i] = "\"" THEN ParseChars(s, i + 1, <<>>)
      ELSE IF s[i] = "-" \/ IsDigit(s[i]) THEN ParseNumber(s, i)
      ELSE IF s[i] = "[" THEN
        LET j == SkipSpace(s, i + 1)
        IN  IF j <= Len(s) /\ s[j] = "]" THEN Parsed(JArr(<<>>), j + 1)
            ELSE LET r == ParseValue(s, j)
                 IN  IF r.ok THEN ParseElements(s, r.i, <<r.v>>) ELSE ParseFail
      ELSE IF s[i] = "{" THEN
        LET j == SkipSpace(s, i + 1)
        IN  IF j <= Len(s) /\ s[j] = "}" THEN Parsed(JObj(<<>>), j + 1)
            ELSE ParseMembers(s, j, <<>>)
      ELSE ParseFail

\* JSON.parse of a text: [ok, v]; a text with a run-length tail ends in "a"
\* and is no JSON text
JSONparse(text) ==
  LET r == ParseValue(text.s, 1)
  IN  IF text.pad = 0 /\ r.ok /\ SkipSpace(text.s, r.i) > Len(text.s)
      THEN [ok |-> TRUE, v |-> r.v]
      ELSE [ok |-> FALSE, v |-> Undef]

(* ------------------------------------------------------------------ *)
(* Errors                                                              *)
(* ------------------------------------------------------------------ *)
\* no error thrown
Ok == [t |-> "ok"]
TypeError(message) == [t |-> "error", name |-> "TypeError", message |-> message]
SyntaxError == [t |-> "error", name |-> "SyntaxError", message |-> "Unexpected token"]

\* the Error throwKVError(method, status, message) throws
throwKVError(method, status, message) ==
  [t |-> "error", name |-> "Error", method |-> method, status |-> status,
   message |-> message]

(* ------------------------------------------------------------------ *)
(* Validation                                                          *)
(* ------------------------------------------------------------------ *)
\* characters of the model whose UTF-8 encoding takes two bytes
TwoByteChars == {"U+00E9"}

\* textEncoder.encode(key).byteLength
byteLength(str) ==
  Len(str.s) + str.pad + Cardinality({i \in 1..Len(str.s) : str.s[i] \in TwoByteChars})

validateKey(method, key) ==
  IF key = Str(<<>>) THEN TypeError("Key name cannot be empty.")
  ELSE IF key = Str(<<".">>) THEN TypeError("\".\" is not allowed as a key name.")
  ELSE IF key = Str(<<".", ".">>) THEN TypeError("\"..\" is not allowed as a key name.")
  ELSE IF byteLength(key) > MAX_KEY_SIZE
    THEN throwKVError(method, 414, "exceeds key length limit")
  ELSE Ok

getValueTypes == {Lit("text"), Lit("json"), Lit("arrayBuffer"), Lit("stream")}

\* options is undefined, a type token, or an options object
GetOptions(type, cacheTtl) == [t |-> "options", type |-> type, cacheTtl |-> cacheTtl]

validateGetOptions(options) ==
  LET string == typeof(options) = "string"
      given == IF options.t = "options" THEN options.type ELSE Undef
      type == IF string THEN options
              ELSE IF given.t \in {"undefined", "null"} THEN Lit("text") ELSE given
      cacheTtl == IF options.t = "options" THEN options.cacheTtl ELSE Undef
  IN  IF Truthy(cacheTtl) /\ (cacheTtl.nan \/ Lt(cacheTtl, Number(MIN_CACHE_TTL)))
        THEN [throw |-> throwKVError("GET", 400, "Invalid cache_ttl"), type |-> type]
      ELSE IF type \notin getValueTypes
        THEN [throw |-> TypeError("Unknown response type."), type |-> type]
      ELSE [throw |-> Ok, type |-> type]

(* ------------------------------------------------------------------ *)
(* Construction                                                        *)
(* ------------------------------------------------------------------ *)
KVOptions(account_id, namespace_id, api_email, api_key, api_token) ==
  [t |-> "KVOptions", account_id |-> account_id, namespace_id |-> namespace_id,
   api_email |-> api_email, api_key |-> api_key, api_token |-> api_token]

\* the header map after the constructor's assignments
constructorHeaders(options) ==
  LET base == [h \in {"content-type"} |-> Lit("application/json")]
      pair == IF Truthy(options.api_email) /\ Truthy(options.api_key)
              THEN ("x-api-email" :> options.api_email) @@ ("x-auth-key" :> options.api_key)
              ELSE <<>>
      token == IF Truthy(options.api_token)
               THEN ("authorization" :>
                       Str(<<"B", "e", "a", "r", "e", "r", " ">> \o options.api_token.s))
               ELSE <<>>
  IN  token @@ pair @@ base

\* new CloudflareKV(options): the error thrown, or the client
constructor(options) ==
  IF ~Truthy(options.account_id) \/ ~Truthy(options.namespace_id)
    THEN [throw |-> [t |-> "error", name |-> "Error",
                     message |-> "Missing account_id or namespace_id"],
          client |-> Undef]
  ELSE IF ~Truthy(options.api_email) /\ ~Truthy(options.api_key)
          /\ ~Truthy(options.api_token)
    THEN [throw |-> [t |-> "error", name |-> "Error",
                     message |-> "Missing api_email, api_key or api_token"],
          client |-> Undef]
  ELSE [throw |-> Ok,
        client |-> [t |-> "CloudflareKV",
                    baseUrl |-> [account |-> options.account_id,
                                 namespace |-> options.namespace_id],
                    headers |-> constructorHeaders(options)]]

(* ------------------------------------------------------------------ *)
(* Requests and responses                                              *)
(* ------------------------------------------------------------------ *)
\* fetch(url, {method, headers, body}); key and query are Undef where the
\* URL has none
Request(this, method, path, key, query, body) ==
  [method |-> method, base |-> this.baseUrl, path |-> path, key |-> key,
   query |-> query, headers |-> this.headers, body |-> body]

\* a response: its status and its body, which is null (no body), a text,
\* or a document (a JSON text given by the value it parses to)
Response(status, body) == [t |-> "response", status |-> status, body |-> body]
Document(v) == [t |-> "document", v |-> v]
\* fetch rejects
NetworkError == [t |-> "networkError"]
FetchFailed == TypeError("fetch failed")

\* res.text()
resText(res) ==
  CASE res.body.t = "null" -> Str(<<>>)
    [] res.body.t = "document" -> Str(JSONstringify(res.body.v))
    [] OTHER -> res.body

\* res.json(): [ok, v]
resJson(res) ==
  CASE res.body.t = "null" -> [ok |-> FALSE, v |-> Undef]
    [] res.body.t = "document" -> [ok |-> TRUE, v |-> res.body.v]
    [] OTHER -> JSONparse(res.body)

\* member names of the wire protocol
resultName == <<"r", "e", "s", "u", "l", "t">>
resultInfoName == <<"r", "e", "s", "u", "l", "t", "_", "i", "n", "f", "o">>
cursorName == <<"c", "u", "r", "s", "o", "r">>

\* obj[name] for a parsed JSON value
Member(obj, name) ==
  IF obj.t = "object" /\ \E i \in 1..Len(obj.members) : obj.members[i][1] = name
  THEN obj.members[CHOOSE i \in 1..Len(obj.members) :
                     /\ obj.members[i][1] = name
                     /\ \A j \in (i + 1)..Len(obj.members) : obj.members[j][1] # name][2]
  ELSE Undef

\* how an operation ends
Throw(error) == [t |-> "throw", error |-> error]
Return(value) == [t |-> "return", value |-> value]

(* ------------------------------------------------------------------ *)
(* get, getWithMetadata, delete                                        *)
(* ------------------------------------------------------------------ *)
\* get up to its fetch: the error thrown, or the request made
getRequest(this, key, options) ==
  IF typeof(key) # "string"
    THEN [throw |-> TypeError("Failed to execute 'get'"), type |-> Undef, request |-> Undef]
  ELSE IF validateKey("GET", key) # Ok
    THEN [throw |-> validateKey("GET", key), type |-> Undef, request |-> Undef]
  ELSE LET o == validateGetOptions(options)
       IN  IF o.throw # Ok THEN [throw |-> o.throw, type |-> Undef, request |-> Undef]
           ELSE [throw |-> Ok, type |-> o.type,
                 request |-> Request(this, "GET", "values", key, Undef, Undef)]

\* get from its response on
\* get without line 166: a 404 is decoded like any other response
getDecodeNo404(type, res) ==
  IF res = NetworkError THEN Throw(FetchFailed)
  ELSE CASE type = Lit("text") -> Return(resText(res))
         [] type = Lit("json") ->
              IF resJson(res).ok THEN Return(resJson(res).v) ELSE Throw(SyntaxError)
         [] type = Lit("arrayBuffer") -> Return(ArrayBufferOf(resText(res)))
         [] OTHER ->
              IF res.body.t = "null" THEN Return(JNull)
              ELSE Return(ReadableStreamOf(resText(res)))

getDecode(type, res) ==
  IF res = NetworkError THEN Throw(FetchFailed)
  ELSE IF res.status = 404 THEN Return(JNull)
  ELSE CASE type = Lit("text") -> Return(resText(res))
         [] type = Lit("json") ->
              IF resJson(res).ok THEN Return(resJson(res).v) ELSE Throw(SyntaxError)
         [] type = Lit("arrayBuffer") -> Return(ArrayBufferOf(resText(res)))
         [] OTHER ->
              IF res.body.t = "null" THEN Return(JNull)
              ELSE Return(ReadableStreamOf(resText(res)))

\* getWithMetadata after get has returned value: the result returned at
\* once, or Undef when the metadata request is made
getWithMetadataShortcut(value) ==
  IF value = JNull THEN Return([t |-> "result", value |-> value, metadata |-> JNull])
  ELSE Undef

metadataRequest(this, key) == Request(this, "GET", "metadata", key, Undef, Undef)

\* getWithMetadata from the metadata response on
metadataDecode(value, res) ==
  IF res = NetworkError THEN Throw(FetchFailed)
  ELSE IF ~resJson(res).ok THEN Throw(SyntaxError)
  ELSE IF resJson(res).v.t = "null"
    THEN Throw(TypeError("Cannot destructure property 'result'"))
  ELSE Return([t |-> "result", value |-> value,
               metadata |-> Member(resJson(res).v, resultName)])

\* delete up to its fetch
\* delete with the fetch of line 224 moved above the validateKey of line 223
deleteRequestFetchFirst(this, key) ==
  IF typeof(key) # "string"
    THEN [throw |-> TypeError("Failed to execute 'delete'"), request |-> Undef]
  ELSE [throw |-> validateKey("DELETE", key),
        request |-> Request(this, "DELETE", "values", key, Undef, Undef)]

deleteRequest(this, key) ==
  IF typeof(key) # "string"
    THEN [throw |-> TypeError("Failed to execute 'delete'"), request |-> Undef]
  ELSE IF validateKey("DELETE", key) # Ok
    THEN [throw |-> validateKey("DELETE", key), request |-> Undef]
  ELSE [throw |-> Ok, request |-> Request(this, "DELETE", "values", key, Undef, Undef)]

\* delete and put from their response on: the response is not looked at
discardResponse(res) ==
  IF res = NetworkError THEN Throw(FetchFailed) ELSE Return(Undef)

(* ------------------------------------------------------------------ *)
(* put                                                                 *)
(* ------------------------------------------------------------------ *)
KVPutOptions(expiration, expirationTtl, metadata) ==
  [t |-> "KVPutOptions", expiration |-> expiration, expirationTtl |-> expirationTtl,
   metadata |-> metadata]

OutOfRange == TypeError("Value out of range.")

\* the text put stores for value
putStored(value) ==
  IF typeof(value) = "string" THEN [throw |-> Ok, stored |-> value]
  ELSE IF typeof(value) = "object"
    THEN [throw |-> Ok, stored |-> Str(JSONstringify(value))]
  ELSE [throw |-> TypeError("KV put() accepts only strings as values"),
        stored |-> Undef]

\* the checks of a relative TTL that is in effect
validateExpirationTtl(expirationTtl) ==
  IF Lt(expirationTtl, Number(MIN_EXPIRATION)) \/ Gt(expirationTtl, Number(MAX_EXPIRATION))
    THEN OutOfRange
  ELSE IF expirationTtl.nan \/ Le(expirationTtl, Number(0))
    THEN throwKVError("PUT", 400, "Invalid expiration_ttl. Please specify integer greater than 0.")
  ELSE IF Lt(expirationTtl, Number(MIN_CACHE_TTL))
    THEN throwKVError("PUT", 400, "Invalid expiration_ttl. Expiration TTL must be at least 60.")
  ELSE Ok

\* the checks of an absolute expiration
\* the checks of lines 271-291 without the 60 second floor
validateExpirationNoFloor(expiration, now) ==
  IF Lt(expiration, Number(MIN_EXPIRATION)) \/ Gt(expiration, Number(MAX_EXPIRATION))
    THEN OutOfRange
  ELSE IF expiration.nan \/ Le(expiration, now)
    THEN throwKVError("PUT", 400, "Invalid expiration. Please specify integer greater than the current number of seconds since the UNIX epoch.")
  ELSE Ok

validateExpiration(expiration, now) ==
  IF Lt(expiration, Number(MIN_EXPIRATION)) \/ Gt(expiration, Number(MAX_EXPIRATION))
    THEN OutOfRange
  ELSE IF expiration.nan \/ Le(expiration, now)
    THEN throwKVError("PUT", 400, "Invalid expiration. Please specify integer greater than the current number of seconds since the UNIX epoch.")
  ELSE IF Lt(expiration, Plus(now, Number(MIN_CACHE_TTL)))
    THEN throwKVError("PUT", 400, "Invalid expiration. Expiration times must be at least 60 seconds in the future.")
  ELSE Ok

\* whether put takes the branch of the relative TTL
ttlInEffect(expirationTtl) == Truthy(expirationTtl)

\* normalise and validate expiration: the error thrown, or the expiration
\* and expiration_ttl to send
putExpiration(options, now) ==
  LET expiration == normaliseInt(options.expiration)
      expirationTtl == normaliseInt(options.expirationTtl)
  IN  IF ttlInEffect(expirationTtl) THEN
        IF validateExpirationTtl(expirationTtl) # Ok
        THEN [throw |-> validateExpirationTtl(expirationTtl),
              expiration |-> expiration, expirationTtl |-> expirationTtl]
        ELSE [throw |-> Ok,
              expiration |-> Plus(now, expirationTtl), expirationTtl |-> expirationTtl]
      ELSE IF expiration # Undef THEN
        [throw |-> validateExpiration(expiration, now),
         expiration |-> expiration, expirationTtl |-> expirationTtl]
      ELSE [throw |-> Ok, expiration |-> expiration, expirationTtl |-> expirationTtl]

\* JSON.stringify(v).length; the run-length tail of a plain string is
\* counted, not written out
stringifiedLength(v) ==
  IF v.t = "string" /\ \A i \in 1..Len(v.s) : v.s[i] \notin {"\"", "\\"}
  THEN Length(v) + 2
  ELSE Len(JSONstringify(v))

\* validate value and metadata size
putSizes(stored, metadata) ==
  IF Length(stored) > MAX_VALUE_SIZE
    THEN throwKVError("PUT", 413, "Value length exceeds limit")
  ELSE IF Truthy(metadata) /\ stringifiedLength(metadata) > MAX_METADATA_SIZE
    THEN throwKVError("PUT", 413, "Metadata length exceeds limit")
  ELSE Ok

\* a member of the bulk body as JSON.stringify writes it: NaN is written
\* null, undefined leaves the member out
bulkMember(v) == IF v.t = "number" /\ v.nan THEN JNull ELSE v

bulkBody(expiration, expirationTtl, key, stored, metadata) ==
  [expiration |-> bulkMember(expiration), expiration_ttl |-> bulkMember(expirationTtl),
   key |-> key, value |-> stored, metadata |-> metadata]

\* put up to its fetch; clock is Date.getTime() / 1000
putRequest(this, key, value, options, clock) ==
  LET v == putStored(value)
      now == normaliseInt(clock)
      e == putExpiration(options, now)
      none == [throw |-> Ok, now |-> now, request |-> Undef]
  IN  IF typeof(key) # "string"
        THEN [none EXCEPT !.throw = TypeError("Failed to execute 'put'")]
      ELSE IF validateKey("PUT", key) # Ok
        THEN [none EXCEPT !.throw = validateKey("PUT", key)]
      ELSE IF v.throw # Ok THEN [none EXCEPT !.throw = v.throw]
      ELSE IF e.throw # Ok THEN [none EXCEPT !.throw = e.throw]
      ELSE IF putSizes(v.stored, options.metadata) # Ok
        THEN [none EXCEPT !.throw = putSizes(v.stored, options.metadata)]
      ELSE [none EXCEPT !.request =
              Request(this, "PUT", "bulk", Undef, Undef,
                      bulkBody(e.expiration, e.expirationTtl, key, v.stored,
                               options.metadata))]

(* ------------------------------------------------------------------ *)
(* list                                                                *)
(* ------------------------------------------------------------------ *)
KVListOptions(prefix, limit, cursor) ==
  [t |-> "KVListOptions", prefix |-> prefix, limit |-> limit, cursor |-> cursor]

\* the parameters list destructures, with their defaults
listPrefix(options) ==
  IF options.t = "undefined" \/ options.prefix.t = "undefined" THEN Str(<<>>)
  ELSE options.prefix
listLimit(options) ==
  IF options.t = "undefined" \/ options.limit.t = "undefined" THEN Number(MAX_LIST_KEYS)
  ELSE options.limit
listCursor(options) == IF options.t = "undefined" THEN Undef ELSE options.cursor

validateListOptions(limit) ==
  IF limit.nan \/ Lt(limit, Number(1))
    THEN throwKVError("GET", 400, "Invalid key_count_limit. Please specify an integer greater than 0.")
  ELSE IF Gt(limit, Number(MAX_LIST_KEYS))
    THEN throwKVError("GET", 400, "Invalid key_count_limit. Please specify an integer less than 1000.")
  ELSE Ok

\* the search parameters appended to /keys
listQuery(prefix, limit, cursor) ==
  (IF Truthy(prefix) THEN << <<"prefix", prefix>> >> ELSE <<>>)
  \o (IF Truthy(limit) THEN << <<"limit", limit>> >> ELSE <<>>)
  \o (IF Truthy(cursor) THEN << <<"cursor", cursor>> >> ELSE <<>>)

\* list up to its fetch
listRequest(this, options) ==
  IF validateListOptions(listLimit(options)) # Ok
    THEN [throw |-> validateListOptions(listLimit(options)), request |-> Undef]
  ELSE [throw |-> Ok,
        request |-> Request(this, "GET", "keys", Undef,
                            listQuery(listPrefix(options), listLimit(options),
                                      listCursor(options)),
                            Undef)]

\* whether the page of keys is the last one
\* line 340 with <= for <
listCompleteLe(keys, limit) ==
  IF keys.t = "array" THEN Le(Number(Len(keys.items)), limit) ELSE FALSE

listComplete(keys, limit) ==
  IF keys.t = "array" THEN Lt(Number(Len(keys.items)), limit) ELSE FALSE

\* list from its response on
listResult(limit, res) ==
  LET keys == Member(resJson(res).v, resultName)
      info == Member(resJson(res).v,
                     resultInfoName)
  IN  IF res = NetworkError THEN Throw(FetchFailed)
      ELSE IF ~resJson(res).ok THEN Throw(SyntaxError)
      ELSE IF resJson(res).v.t = "null"
        THEN Throw(TypeError("Cannot destructure property 'result'"))
      ELSE IF info.t \in {"undefined", "null"} \/ keys.t \in {"undefined", "null"}
        THEN Throw(TypeError("Cannot read properties of undefined"))
      ELSE Return([t |-> "KVListResult", keys |-> keys,
                   cursor |-> Member(info, cursorName),
                   list_complete |-> listComplete(keys, limit)])

(* ------------------------------------------------------------------ *)
(* State                                                               *)
(*   client   the constructed client, or undefined                     *)
(*   pc       "new" before construction, "idle" between calls,         *)
(*            "fetch" while a call awaits a response, "done" when it   *)
(*            has ended                                                *)
(*   call     the call in progress and its arguments                   *)
(*   sent     the requests the call has made, in order                 *)
(*   rcvd     the responses it has received, in order                  *)
(*   outcome  how the call ended: what it returned or threw            *)
(*   store    the namespace as the server holds it                     *)
(*   written  per key, the value the caller last passed to put         *)
(*   pager    a caller that pages through the namespace with list      *)
(* ------------------------------------------------------------------ *)
VARIABLES client, pc, call, sent, rcvd, outcome, store, written, pager

vars == <<client, pc, call, sent, rcvd, outcome, store, written, pager>>
env == <<store, written, pager>>

Last(seq) == seq[Len(seq)]

\* a call that throws ends at once, else it awaits the response; request is
\* the request it has issued by then, undefined when it threw before its fetch
Begin(c, throw, request) ==
  /\ pc = "idle"
  /\ call' = c
  /\ rcvd' = <<>>
  /\ sent' = IF request = Undef THEN <<>> ELSE <<request>>
  /\ IF throw # Ok
     THEN /\ outcome' = Throw(throw)
          /\ pc' = "done"
     ELSE /\ outcome' = Undef
          /\ pc' = "fetch"
  /\ UNCHANGED client

End(res, result) ==
  /\ rcvd' = Append(rcvd, res)
  /\ outcome' = result
  /\ pc' = "done"
  /\ UNCHANGED <<client, call, sent>>

Construct(options) ==
  /\ pc = "new"
  /\ call' = [op |-> "new", options |-> options]
  /\ sent' = <<>>
  /\ rcvd' = <<>>
  /\ IF constructor(options).throw # Ok
     THEN /\ client' = Undef
          /\ outcome' = Throw(constructor(options).throw)
          /\ pc' = "new"
     ELSE /\ client' = constructor(options).client
          /\ outcome' = Return(constructor(options).client)
          /\ pc' = "done"

GetCall(key, options) ==
  LET r == getRequest(client, key, options)
  IN  Begin([op |-> "get", key |-> key, options |-> options, type |-> r.type],
            r.throw, r.request)

GetSettle(res) ==
  /\ pc = "fetch" /\ call.op = "get"
  /\ End(res, getDecode(call.type, res))

\* getWithMetadata begins with this.get(key, options)
GetWithMetadataCall(key, options) ==
  LET r == getRequest(client, key, options)
  IN  Begin([op |-> "getWithMetadata", key |-> key, options |-> options,
             type |-> r.type, value |-> Undef],
            r.throw, r.request)

\* the value response arrives: get throws, or the value it returns decides
\* whether the metadata is fetched
GetWithMetadataValue(res) ==
  /\ pc = "fetch" /\ call.op = "getWithMetadata" /\ Len(sent) = 1
  /\ LET got == getDecode(call.type, res)
     IN  IF got.t = "throw" THEN End(res, got)
         ELSE IF getWithMetadataShortcut(got.value) # Undef
           THEN End(res, getWithMetadataShortcut(got.value))
         ELSE /\ rcvd' = Append(rcvd, res)
              /\ call' = [call EXCEPT !.value = got.value]
              /\ sent' = Append(sent, metadataRequest(client, call.key))
              /\ UNCHANGED <<client, pc, outcome>>

GetWithMetadataSettle(res) ==
  /\ pc = "fetch" /\ call.op = "getWithMetadata" /\ Len(sent) = 2
  /\ End(res, metadataDecode(call.value, res))

DeleteCall(key) ==
  LET r == deleteRequest(client, key)
  IN  Begin([op |-> "delete", key |-> key], r.throw, r.request)

DeleteSettle(res) ==
  /\ pc = "fetch" /\ call.op = "delete"
  /\ End(res, discardResponse(res))

PutCall(key, value, options, clock) ==
  LET r == putRequest(client, key, value, options, clock)
  IN  Begin([op |-> "put", key |-> key, value |-> value, options |-> options,
             now |-> r.now],
            r.throw, r.request)

PutSettle(res) ==
  /\ pc = "fetch" /\ call.op = "put"
  /\ End(res, discardResponse(res))

ListCall(options) ==
  LET r == listRequest(client, options)
  IN  Begin([op |-> "list", options |-> options], r.throw, r.request)

ListSettle(res) ==
  /\ pc = "fetch" /\ call.op = "list"
  /\ End(res, listResult(listLimit(call.options), res))

\* the caller takes the outcome; the client is ready for the next call
Resume ==
  /\ pc = "done"
  /\ pc' = "idle"
  /\ call' = Undef
  /\ sent' = <<>>
  /\ rcvd' = <<>>
  /\ outcome' = Undef
  /\ UNCHANGED client

(* ------------------------------------------------------------------ *)
(* Inputs of the model                                                 *)
(* ------------------------------------------------------------------ *)
Credentials == {Undef, Str(<<>>), Str(<<"x">>)}
Identifiers == {Str(<<>>), Str(<<"i", "d">>)}
CtorInputs ==
  {KVOptions(a, n, e, k, tk) :
     a \in Identifiers, n \in Identifiers, e \in Credentials, k \in Credentials,
     tk \in Credentials}

\* "U+00E9" takes two bytes: the last key is 512 characters and 513 bytes
Keys ==
  {Number(7), Str(<<>>), Str(<<".">>), Str(<<".", ".">>), Str(<<"k">>),
   Padded(<<"k">>, MAX_KEY_SIZE - 1), Padded(<<"k">>, MAX_KEY_SIZE),
   Padded(<<"U+00E9">>, MAX_KEY_SIZE - 2), Padded(<<"U+00E9">>, MAX_KEY_SIZE - 1)}
PutKeys == {Number(7), Str(<<"k">>), Padded(<<"U+00E9">>, MAX_KEY_SIZE - 1)}

GetOptionInputs ==
  {Undef, Lit("text"), Lit("json"), Lit("arrayBuffer"), Lit("stream"), Lit("xml"),
   GetOptions(Undef, Undef), GetOptions(JNull, Frac(59, 5)),
   GetOptions(Lit("json"), Number(MIN_CACHE_TTL)),
   GetOptions(Lit("json"), Number(MIN_CACHE_TTL - 1)),
   GetOptions(Lit("text"), Number(0)), GetOptions(Lit("stream"), NaN),
   GetOptions(Lit("blob"), Undef)}

NameA == JObj(<< <<<<"n", "a", "m", "e">>, Str(<<"a">>)>> >>)
PutValues ==
  {Str(<<"h", "i">>), Padded(<<>>, MAX_VALUE_SIZE), Padded(<<>>, MAX_VALUE_SIZE + 1),
   NameA, JNull, Number(5)}

TtlInputs ==
  {Undef, Number(0), Number(MIN_CACHE_TTL - 1), Frac(MIN_CACHE_TTL - 1, 5),
   Number(3600), Number(MAX_EXPIRATION), Above(1), Number(-5),
   Str(<<"a", "b", "c">>), Str(<<"3", "6", "0", "0">>)}

ExpirationInputs ==
  {Undef, Number(NowBase + 1), Number(NowBase + MIN_CACHE_TTL),
   Number(NowBase + MIN_CACHE_TTL + 1), Above(1), Below(1), Str(<<"x">>),
   Str(NatText(NowBase + 3600))}

MetadataInputs ==
  {Undef, NameA, Padded(<<>>, MAX_METADATA_SIZE - 2), Padded(<<>>, MAX_METADATA_SIZE - 1)}

PutOptionInputs ==
  {KVPutOptions(e, tt, m) : e \in ExpirationInputs, tt \in TtlInputs, m \in MetadataInputs}

\* Date.getTime() / 1000: the reading rounds to the second below or above
Clocks == {Frac(NowBase + i, f) : i \in 0..MaxTick, f \in {4, 5}}

ListOptionInputs ==
  {Undef}
  \cup {KVListOptions(p, l, c) :
          p \in {Undef, Str(<<"p">>)},
          l \in {Undef, Number(1), Number(2), Frac(1, 5), Number(MAX_LIST_KEYS),
                 Number(MAX_LIST_KEYS + 1), Number(0), Number(-1), NaN},
          c \in {Undef, Str(<<>>), Str(<<"c">>)}}

(* ------------------------------------------------------------------ *)
(* Responses of an arbitrary server                                    *)
(* ------------------------------------------------------------------ *)
ErrorEnvelope ==
  JObj(<< <<<<"s", "u", "c", "c", "e", "s", "s">>, JBool(FALSE)>>, <<resultName, JNull>> >>)
Html == Str(<<"<", "h", "t", "m", "l", ">">>)

ValueResponses ==
  {Response(200, Str(<<"h", "i">>)), Response(200, Str(<<"n", "u", "l", "l">>)),
   Response(200, Str(<<"{", "\"", "a", "\"", ":", "1", "}">>)),
   Response(200, Str(<<>>)), Response(204, JNull),
   Response(404, Document(ErrorEnvelope)), Response(403, Document(ErrorEnvelope)),
   Response(500, Html), NetworkError}

MetadataResponses ==
  {Response(200, Document(JObj(<< <<resultName, NameA>> >>))),
   Response(200, Document(JObj(<< <<resultName, JNull>> >>))),
   Response(200, Document(JObj(<<>>))),
   Response(200, Str(<<"n", "u", "l", "l">>)),
   Response(404, Document(ErrorEnvelope)), Response(500, Html), NetworkError}

WriteResponses ==
  {Response(200, Document(JObj(<<>>))), Response(500, Html), NetworkError}

\* the entry of the i-th key of a page
KeyEntry(i) == JObj(<< <<<<"n", "a", "m", "e">>, Str(<<"k">> \o NatText(i))>> >>)
Page(first, n, cursor, hint) ==
  Response(200, Document(JObj(<<
    <<resultName, JArr([i \in 1..n |-> KeyEntry(first + i - 1)])>>,
    <<resultInfoName,
      JObj(<< <<cursorName, cursor>>,
              <<<<"l", "i", "s", "t", "_", "c", "o", "m", "p", "l", "e", "t", "e">>,
                JBool(hint)>> >>)>> >>)))

\* pages around the requested limit, with any cursor and completion hint
ListResponses(limit) ==
  {Page(1, n, c, h) :
     n \in {m \in {0, 1, limit.n - 1, limit.n, limit.n + 1} : m >= 0},
     c \in {Str(<<>>), Str(<<"c">>)}, h \in BOOLEAN}
  \cup {Response(403, Document(ErrorEnvelope)), Response(502, Html), NetworkError}

(* ------------------------------------------------------------------ *)
(* Spec: the client against a server that may answer anything          *)
(* ------------------------------------------------------------------ *)
Init ==
  /\ client = Undef
  /\ pc = "new"
  /\ call = Undef
  /\ sent = <<>>
  /\ rcvd = <<>>
  /\ outcome = Undef
  /\ store = <<>>
  /\ written = Undef
  /\ pager = Undef

New == pc = "new" /\ \E o \in CtorInputs : Construct(o) /\ UNCHANGED env
Get ==
  pc = "idle" /\ \E k \in Keys, o \in GetOptionInputs : GetCall(k, o) /\ UNCHANGED env
GetResponse ==
  pc = "fetch" /\ \E res \in ValueResponses : GetSettle(res) /\ UNCHANGED env
GetWithMetadata ==
  /\ pc = "idle"
  /\ \E k \in Keys, o \in GetOptionInputs : GetWithMetadataCall(k, o) /\ UNCHANGED env
GetWithMetadataValueResponse ==
  pc = "fetch" /\ \E res \in ValueResponses : GetWithMetadataValue(res) /\ UNCHANGED env
GetWithMetadataResponse ==
  pc = "fetch" /\ \E res \in MetadataResponses : GetWithMetadataSettle(res) /\ UNCHANGED env
Delete == pc = "idle" /\ \E k \in Keys : DeleteCall(k) /\ UNCHANGED env
DeleteResponse ==
  pc = "fetch" /\ \E res \in WriteResponses : DeleteSettle(res) /\ UNCHANGED env
Put ==
  /\ pc = "idle"
  /\ \E k \in PutKeys, v \in PutValues, o \in PutOptionInputs, clock \in Clocks :
       PutCall(k, v, o, clock) /\ UNCHANGED env
PutResponse ==
  pc = "fetch" /\ \E res \in WriteResponses : PutSettle(res) /\ UNCHANGED env
List == pc = "idle" /\ \E o \in ListOptionInputs : ListCall(o) /\ UNCHANGED env
ListResponse ==
  /\ pc = "fetch" /\ call.op = "list"
  /\ \E res \in ListResponses(listLimit(call.options)) : ListSettle(res) /\ UNCHANGED env
Continue == Resume /\ UNCHANGED env

Next ==
  \/ New
  \/ Get \/ GetResponse
  \/ GetWithMetadata \/ GetWithMetadataValueResponse \/ GetWithMetadataResponse
  \/ Delete \/ DeleteResponse
  \/ Put \/ PutResponse
  \/ List \/ ListResponse
  \/ Continue

Spec == Init /\ [][Next]_vars

(* ------------------------------------------------------------------ *)
(* Properties of Spec                                                  *)
(* ------------------------------------------------------------------ *)
Operations == {"get", "getWithMetadata", "put", "delete", "list"}
Ended == pc = "done" /\ call.op \in Operations
Threw == Ended /\ outcome.t = "throw"
Returned == Ended /\ outcome.t = "return"
\* the response to the call's first request
Answered == Ended /\ rcvd # <<>> /\ rcvd[1] # NetworkError

\* the errors of local validation: those throwKVError makes, and the type
\* errors about the key, the representation type, the value and the range
ValidationMessages ==
  {"Failed to execute 'get'", "Failed to execute 'put'", "Failed to execute 'delete'",
   "Key name cannot be empty.", "\".\" is not allowed as a key name.",
   "\"..\" is not allowed as a key name.", "Unknown response type.",
   "KV put() accepts only strings as values", "Value out of range."}
IsValidationError(e) ==
  \/ e.name = "Error"
  \/ e.name = "TypeError" /\ e.message \in ValidationMessages

\* C1: an operation that fails with a local validation error has issued no
\* request.
C1_ValidationBeforeRequest ==
  (Threw /\ IsValidationError(outcome.error)) => sent = <<>>

\* put has rejected metadata of more than 1024 serialized characters, and
\* nothing was sent
C1_Witness ==
  /\ Threw /\ call.op = "put"
  /\ outcome.error.name = "Error" /\ outcome.error.status = 413
  /\ outcome.error.message = "Metadata length exceeds limit"
  /\ sent = <<>>

\* the relative TTL of the put in progress, normalised
TtlOfCall == normaliseInt(call.options.expirationTtl)
\* the absolute expiration of the put in progress, normalised
ExpirationOfCall == normaliseInt(call.options.expiration)
PutBegun == pc \in {"fetch", "done"} /\ call.op = "put"
Rejected == pc = "done" /\ outcome.t = "throw" /\ sent = <<>>

\* C2: a put with expirationTtl t fails without a request when t < 60, is
\* rejected when t is no integer after rounding or parsing, and otherwise
\* sends expiration = now + t and expiration_ttl = t.
C2_TtlChecked ==
  (PutBegun /\ TtlOfCall # Undef) =>
    /\ TtlOfCall.nan => Rejected
    /\ Lt(TtlOfCall, Number(MIN_CACHE_TTL)) => Rejected
    /\ (~TtlOfCall.nan /\ ~Lt(TtlOfCall, Number(MIN_CACHE_TTL)) /\ sent # <<>>) =>
         /\ sent[1].body.expiration = Plus(call.now, TtlOfCall)
         /\ sent[1].body.expiration_ttl = TtlOfCall

\* C3: a 404 on the value request makes get return null and getWithMetadata
\* return {value: null, metadata: null} after that one request.
C3_NotFoundIsNull ==
  (Answered /\ call.op \in {"get", "getWithMetadata"} /\ rcvd[1].status = 404) =>
    /\ call.op = "get" => outcome = Return(JNull)
    /\ call.op = "getWithMetadata" =>
         /\ outcome = Return([t |-> "result", value |-> JNull, metadata |-> JNull])
         /\ Len(sent) = 1
         /\ sent[1].path = "values"

C3_Witness ==
  /\ Answered /\ call.op = "getWithMetadata" /\ rcvd[1].status = 404
  /\ outcome.t = "return" /\ Len(sent) = 1

\* C4: get surfaces a response whose status is neither 2xx nor 404 as a
\* failure, and returns no value decoded from its body.
C4_ErrorStatusFails ==
  (Answered /\ call.op = "get" /\ rcvd[1].status \notin (200..299) \cup {404}) =>
    outcome.t = "throw"

\* C5: a constructed client holds exactly one credential scheme beside the
\* content type, construction fails without a token or a full email and key
\* pair, and every request carries that header set.
HasToken(headers) == "authorization" \in DOMAIN headers
HasPair(headers) == {"x-api-email", "x-auth-key"} \subseteq DOMAIN headers
C5_OneCredentialScheme ==
  /\ client # Undef =>
       /\ "content-type" \in DOMAIN client.headers
       /\ HasToken(client.headers) # HasPair(client.headers)
  /\ \A i \in 1..Len(sent) : sent[i].headers = client.headers

\* C6: the list_complete of a returned page is true exactly when the page
\* holds fewer keys than the requested limit (1000 when omitted), whatever
\* cursor or completion hint the server sent.
RequestedLimit ==
  IF call.options = Undef \/ call.options.limit = Undef
  THEN Number(MAX_LIST_KEYS) ELSE call.options.limit
C6_CompleteIffShortPage ==
  (Returned /\ call.op = "list") =>
    LET n == Len(outcome.value.keys.items)
    IN  outcome.value.list_complete <=>
          (n < RequestedLimit.n \/ (n = RequestedLimit.n /\ RequestedLimit.f > 0))

\* a full page under the default limit is not complete, though the server
\* said so and sent no cursor
C6_Witness ==
  /\ Returned /\ call.op = "list" /\ call.options = Undef
  /\ Len(outcome.value.keys.items) = MAX_LIST_KEYS
  /\ ~outcome.value.list_complete
  /\ outcome.value.cursor = Str(<<>>)
  /\ Member(Member(resJson(rcvd[1]).v, resultInfoName),
            <<"l", "i", "s", "t", "_", "c", "o", "m", "p", "l", "e", "t", "e">>) = JBool(TRUE)

\* C8: with no relative TTL in effect, a put with absolute expiration e fails
\* without a request when e is out of the signed 32-bit range, not a number,
\* not after now, or before now + 60; otherwise the request carries
\* expiration e, so that a request sent has expiration >= now + 60.
NoTtl == TtlOfCall = Undef \/ TtlOfCall = Number(0) \/ TtlOfCall.nan
BadExpiration(e, now) ==
  \/ e.nan
  \/ e.c # 0
  \/ e.n <= now.n
  \/ e.n < now.n + MIN_CACHE_TTL
\* the other checks of put pass
RestOfPutValid ==
  /\ typeof(call.key) = "string" /\ validateKey("PUT", call.key) = Ok
  /\ putStored(call.value).throw = Ok
  /\ putSizes(putStored(call.value).stored, call.options.metadata) = Ok
C8_ExpirationChecked ==
  (PutBegun /\ NoTtl /\ ExpirationOfCall # Undef) =>
    /\ BadExpiration(ExpirationOfCall, call.now) => Rejected
    /\ (~BadExpiration(ExpirationOfCall, call.now) /\ RestOfPutValid) => sent # <<>>
    /\ sent # <<>> =>
         /\ sent[1].body.expiration = ExpirationOfCall
         /\ ExpirationOfCall.n >= call.now.n + MIN_CACHE_TTL

\* an expiration of exactly now + 60 has been sent
C8_Witness ==
  /\ PutBegun /\ NoTtl /\ ExpirationOfCall # Undef /\ sent # <<>>
  /\ ExpirationOfCall.n = call.now.n + MIN_CACHE_TTL
  /\ sent[1].body.expiration = ExpirationOfCall

\* C10: when the value request is answered with a status other than 404,
\* getWithMetadata requests /metadata/{key} and returns the metadata taken
\* out of the {result} envelope.
C10_MetadataFetchedUnlessAbsent ==
  (Returned /\ call.op = "getWithMetadata" /\ rcvd[1] # NetworkError
     /\ rcvd[1].status # 404) =>
    /\ Len(sent) = 2
    /\ sent[2].path = "metadata"
    /\ outcome.value.metadata = Member(resJson(rcvd[2]).v, resultName)

(* ------------------------------------------------------------------ *)
(* SpecRoundTrip: the client against a server that stores what is      *)
(* written and returns it unchanged (wire protocol of the spec, §6)    *)
(* ------------------------------------------------------------------ *)
\* %XX sequences the server decodes in a path segment
PercentCodes == {<<"2", "3", "#">>, <<"3", "F", "?">>, <<"2", "5", "%">>}

RECURSIVE PercentDecode(_)
PercentDecode(s) ==
  IF s = <<>> THEN <<>>
  ELSE IF Len(s) >= 3 /\ s[1] = "%" /\ \E p \in PercentCodes : p[1] = s[2] /\ p[2] = s[3]
    THEN <<(CHOOSE p \in PercentCodes : p[1] = s[2] /\ p[2] = s[3])[3]>>
         \o PercentDecode(SubSeq(s, 4, Len(s)))
  ELSE <<Head(s)>> \o PercentDecode(Tail(s))

\* the key the server reads from the URL `${baseUrl}/values/${key}`: the
\* path ends at the first "?" or "#", and is percent-decoded
urlKey(key) ==
  IF \E i \in 1..Len(key.s) : key.s[i] \in {"?", "#"}
  THEN Str(PercentDecode(SubSeq(key.s, 1,
         (CHOOSE i \in 1..Len(key.s) :
            /\ key.s[i] \in {"?", "#"}
            /\ \A j \in 1..(i - 1) : key.s[j] \notin {"?", "#"}) - 1)))
  ELSE Padded(PercentDecode(key.s), key.pad)

\* the namespace after the server has handled req
storeAfter(req) ==
  CASE req.method = "PUT" ->
         (req.body.key :> [value |-> req.body.value, metadata |-> req.body.metadata])
         @@ store
    [] req.method = "DELETE" ->
         [k \in DOMAIN store \ {urlKey(req.key)} |-> store[k]]
    [] OTHER -> store

\* the server's response to req
serve(req) ==
  CASE req.method = "GET" /\ req.path = "values" ->
         IF urlKey(req.key) \in DOMAIN store
         THEN Response(200, store[urlKey(req.key)].value)
         ELSE Response(404, Document(ErrorEnvelope))
    [] req.method = "GET" /\ req.path = "metadata" ->
         IF urlKey(req.key) \in DOMAIN store
         THEN Response(200, Document(JObj(<< <<resultName,
                IF store[urlKey(req.key)].metadata = Undef THEN JNull
                ELSE store[urlKey(req.key)].metadata>> >>)))
         ELSE Response(404, Document(ErrorEnvelope))
    [] OTHER -> Response(200, Document(JObj(<<>>)))

\* a client constructed with a token
TokenClient ==
  constructor(KVOptions(Str(<<"i", "d">>), Str(<<"i", "d">>), Undef, Undef,
                        Str(<<"x">>))).client

RoundTripPutKeys == {Str(<<"k">>), Str(<<"k", "#", "2">>)}
RoundTripGetKeys == RoundTripPutKeys \cup {Str(<<"k", "%", "2", "3", "2">>)}
Nested ==
  JObj(<< <<<<"q">>, Str(<<"\"", "\\">>)>>,
          <<<<"l">>, JArr(<<Number(-1), JNull, JBool(TRUE), JObj(<<>>)>>)>> >>)
RoundTripValues ==
  {Str(<<"h", "i">>), Str(<<"4", "2">>), JNull, NameA, JArr(<<Number(1)>>), Nested}
RoundTripPutOptions ==
  {KVPutOptions(Undef, Undef, Undef), KVPutOptions(Undef, Number(3600), NameA)}

InitRoundTrip ==
  /\ client = TokenClient
  /\ pc = "idle"
  /\ call = Undef
  /\ sent = <<>>
  /\ rcvd = <<>>
  /\ outcome = Undef
  /\ store = <<>>
  /\ written = Undef
  /\ pager = Undef

StoredPut ==
  /\ pc = "idle"
  /\ \E k \in RoundTripPutKeys, v \in RoundTripValues, o \in RoundTripPutOptions :
       PutCall(k, v, o, Frac(NowBase, 0)) /\ UNCHANGED env
\* written records the put the server has just stored
StoredPutServed ==
  /\ pc = "fetch" /\ call.op = "put"
  /\ PutSettle(serve(Last(sent)))
  /\ store' = storeAfter(Last(sent))
  /\ written' = [key |-> call.key, value |-> call.value]
  /\ UNCHANGED pager
StoredGet ==
  /\ pc = "idle"
  /\ \E k \in RoundTripGetKeys, o \in {Lit("json"), Lit("text")} :
       GetCall(k, o) /\ UNCHANGED env
StoredGetServed ==
  /\ pc = "fetch" /\ call.op = "get"
  /\ GetSettle(serve(Last(sent)))
  /\ UNCHANGED env
StoredDelete ==
  /\ pc = "idle"
  /\ \E k \in RoundTripGetKeys : DeleteCall(k) /\ UNCHANGED env
StoredDeleteServed ==
  /\ pc = "fetch" /\ call.op = "delete"
  /\ DeleteSettle(serve(Last(sent)))
  /\ store' = storeAfter(Last(sent))
  /\ written' = Undef
  /\ UNCHANGED pager
StoredContinue == Resume /\ UNCHANGED env

NextRoundTrip ==
  \/ StoredPut \/ StoredPutServed
  \/ StoredGet \/ StoredGetServed
  \/ StoredDelete \/ StoredDeleteServed
  \/ StoredContinue

SpecRoundTrip == InitRoundTrip /\ [][NextRoundTrip]_vars

(* ------------------------------------------------------------------ *)
(* SpecPaging: a caller that lists the namespace page by page, passing *)
(* back the cursor of the page before, until list_complete             *)
(* ------------------------------------------------------------------ *)
\* the value of parameter name in a query, or undefined
QueryParam(query, name) ==
  IF \E i \in 1..Len(query) : query[i][1] = name
  THEN query[CHOOSE i \in 1..Len(query) : query[i][1] = name][2]
  ELSE Undef

Min(a, b) == IF a < b THEN a ELSE b

\* the server's page for req: the cursor it hands out is the number of keys
\* already listed; after the last key it hands out the empty cursor when
\* emptyLast
servePage(total, emptyLast, req) ==
  LET cursor == QueryParam(req.query, "cursor")
      offset == IF cursor = Undef THEN 0 ELSE parseInt(cursor).n
      n == Min(QueryParam(req.query, "limit").n, total - offset)
  IN  Page(offset + 1, n,
           IF offset + n >= total /\ emptyLast THEN Str(<<>>)
           ELSE Str(NatText(offset + n)),
           offset + n >= total)

\* the number of the key an entry of a page names
KeyNumber(entry) == parseInt(Str(Tail(Member(entry, <<"n", "a", "m", "e">>).s))).n

InitPaging ==
  /\ client = TokenClient
  /\ pc = "idle"
  /\ call = Undef
  /\ sent = <<>>
  /\ rcvd = <<>>
  /\ outcome = Undef
  /\ store = <<>>
  /\ written = Undef
  /\ \E total \in 0..MaxKeys, limit \in 1..MaxLimit, emptyLast \in BOOLEAN :
       pager = [total |-> total, limit |-> limit, emptyLast |-> emptyLast,
                cursor |-> Undef, seen |-> [k \in 1..total |-> 0], calls |-> 0,
                finished |-> FALSE]

\* the caller asks for the next page
PageList ==
  /\ pc = "idle" /\ ~pager.finished /\ pager.calls < MaxCalls
  /\ ListCall(KVListOptions(Undef, Number(pager.limit), pager.cursor))
  /\ pager' = [pager EXCEPT !.calls = @ + 1]
  /\ UNCHANGED <<store, written>>

PageServed ==
  /\ pc = "fetch" /\ call.op = "list"
  /\ ListSettle(servePage(pager.total, pager.emptyLast, Last(sent)))
  /\ UNCHANGED env

\* the caller takes the page: its keys, its cursor, and whether to go on
PageTake ==
  /\ pc = "done" /\ outcome.t = "return"
  /\ LET items == outcome.value.keys.items
         got(k) == Cardinality({i \in 1..Len(items) : KeyNumber(items[i]) = k})
     IN  pager' = [pager EXCEPT !.seen = [k \in 1..pager.total |-> @[k] + got(k)],
                                !.cursor = outcome.value.cursor,
                                !.finished = outcome.value.list_complete]
  /\ Resume
  /\ UNCHANGED <<store, written>>

NextPaging == PageList \/ PageServed \/ PageTake

SpecPaging == InitPaging /\ [][NextPaging]_vars

(* ------------------------------------------------------------------ *)
(* Properties of SpecRoundTrip and SpecPaging                          *)
(* ------------------------------------------------------------------ *)
\* the get that has ended reads, as JSON, the key of the put before it
ReadBack ==
  /\ pc = "done" /\ call.op = "get" /\ call.type = Lit("json")
  /\ written # Undef /\ written.key = call.key

\* values JSON.stringify and JSON.parse carry: null, arrays, objects,
\* strings
JsonSerializable(v) == v.t \in {"null", "array", "object", "string"}

\* C7: against the storing server, put(k, v) and then get(k) read as JSON
\* yield v, for every valid key k and every JSON-serializable v, strings
\* among them.
C7_RoundTripAnyValue ==
  (ReadBack /\ JsonSerializable(written.value)) => outcome = Return(written.value)

\* pages needed to list total keys by limit
MinPages(total, limit) == IF total = 0 THEN 1 ELSE (total + limit - 1) \div limit

\* C9: the paging caller sees every key exactly once, and when it stops it
\* has made at most one call more than the pages needed, and that only when
\* the key count is a multiple of the limit.
C9_PagingSeesEachKeyOnce ==
  /\ \A k \in 1..pager.total : pager.seen[k] <= 1
  /\ pager.finished =>
       /\ \A k \in 1..pager.total : pager.seen[k] = 1
       /\ pager.calls <= MinPages(pager.total, pager.limit) + 1
       /\ pager.calls = MinPages(pager.total, pager.limit) + 1 =>
            pager.total % pager.limit = 0

====
